---- MODULE Spec2Model ----
(***************************************************************************)
(* State-machine model of the home-flip-ai dashboard front end:           *)
(*   - MarketAnalysis panel (selection-triggered fetches),                 *)
(*   - GoogleMapsLoader with the module-level load promise,                *)
(*   - Dashboard + PropertyFilter search + MapView marker registry.        *)
(* Each subsystem has its own specification; the variables of the other    *)
(* subsystems stay at their initial values under it.                       *)
(***************************************************************************)
EXTENDS Integers, Sequences, FiniteSets, TLC

\* ------------------------------------------------------------------ bounds
\* Number of fetches the MarketAnalysis panel may issue in one run.
MaxFetches == 3
\* Scrape requests the filter form may send in one run.
MaxSearches == 2
\* Marker synchronisations (generations of marker objects) in one run.
MaxGen == 3
MapLoadRetries == 3
MaxListLen == 2
MaxCalls == 3
\* Longest photo array, and most comma-separated parts of a photo string.
MaxPhotos == 2
\* Price-prediction fetches started in one run.
MaxPredictions == 3

\* 0 stands for JavaScript null wherever an id, a datum or an error is held.
None == 0

\* ------------------------------------------------- MarketAnalysis (panel)
\* Properties the selection owner can hand to the panel.
PanelProps == {1, 2, 3}

\* property.property_url is truthy (property 3 has no listing link).
HasUrl(p) == p \in {1, 2}

VARIABLES
    maProperty,   \* the `property` prop: id of the selected property, None before mount
    maData,       \* analysisData: None or the id whose analysis it is
    maLoading,    \* loading
    maError,      \* error: None or the id whose fetch failed
    maInflight,   \* requests awaiting a response: [id, n]
    maIssued      \* number of requests issued so far

analysisVars == <<maProperty, maData, maLoading, maError, maInflight, maIssued>>

VARIABLES
    apiKey,       \* process.env.REACT_APP_GOOGLE_MAPS_API_KEY is set
    googleLoaded, \* window.google && window.google.maps
    loadPromise,  \* module-level loadPromise: None or a promise id
    initMap,      \* window.initMap: None or the promise its closure resolves
    scripts,      \* script elements: [net, inDom, prom, late]
    nScripts,     \* script elements created so far
    promState,    \* promise id -> "unused" | "pending" | "resolved" | "rejected"
    nProm,        \* promises created so far
    promWaiters,  \* promise id -> instances whose .then/.catch wait on it
    microtasks,   \* queued promise reactions: [inst, kind]
    lifecycle,    \* instance -> "new" | "mounted" | "gone"
    status,       \* instance -> the status state
    rendered,     \* instance -> the status value of its last committed render
    cleanupSt,    \* instance -> status closed over by the last effect's cleanup,
                  \*             "none" when the effect returned no cleanup
    attached,     \* instance -> promise its last effect run subscribed to
    onLoadCalls   \* instance -> number of onLoad() invocations made for it

loaderVars == <<apiKey, googleLoaded, loadPromise, initMap, scripts, nScripts,
                promState, nProm, promWaiters, microtasks, lifecycle, status,
                rendered, cleanupSt, attached, onLoadCalls>>

VARIABLES
    vProps,       \* Dashboard properties, as the filtered view is computed from it
    vFilters,     \* Dashboard filters: [zip, max]
    vShown,       \* filteredProperties, the array handed to PropertyList
    vCards,       \* sortedProperties, the cards in rendered order
    vSel          \* id of selectedProperty, None before a card is clicked
viewVars == <<vProps, vFilters, vShown, vCards, vSel>>

VARIABLES
    apiCalls      \* the calls made to the API client, in order: [fn, net, st, val, reqs]
apiVars == <<apiCalls>>

VARIABLES
    dProps,       \* Dashboard properties: ids of the processed records, in order
    dVer,         \* the search whose response produced the objects in dProps
    dFilters,     \* Dashboard filters: [zip, max], NoFilter where a key is absent
    dSelected,    \* Dashboard selectedProperty: NoSel or [id, ver]
    fLoading,     \* PropertyFilter loading
    fError,       \* PropertyFilter error: "" when null
    fInflight,    \* scrape requests awaiting their response: [n, zip, max]
    fIssued,      \* scrape requests sent so far
    fOutcome,     \* request number -> "none" | "sent" | "ok" | "failed"
    mvMounted,    \* Dashboard isGoogleMapsLoaded: MapView is rendered
    mv,           \* MapView refs and the widget objects it made (see InitMapView)
    dScript,      \* the script element of the Dashboard's GoogleMapsLoader
    dAttempts     \* Dashboard mapLoadAttempts

dashVars == <<dProps, dVer, dFilters, dSelected, fLoading, fError, fInflight,
              fIssued, fOutcome, mvMounted, mv, dScript, dAttempts>>

VARIABLES
    phRaw,        \* the record of the response: [photos, alt] as received
    phNorm,       \* processed.photos, the array PropertyFilter stores
    phImageError, \* PropertyCard imageError
    phCard,       \* PropertyCard photoUrl, the src of its <img>: NoPhoto when null
    phPopup       \* the src of the <img> in the InfoWindow content: NoPhoto when none
photoVars == <<phRaw, phNorm, phImageError, phCard, phPopup>>

VARIABLES
    ppId,         \* PricePrediction propertyId prop: None when absent
    ppData,       \* predictionData (and marketTrends): None or the id fetched
    ppLoading,    \* loading
    ppError,      \* error: "" when null
    ppInflight,   \* fetches awaiting their response: [n, id]
    ppIssued      \* fetches started so far
predVars == <<ppId, ppData, ppLoading, ppError, ppInflight, ppIssued>>

VARIABLES
    mmLife,       \* a MapView rendered on its own: "new" | "mounted" | "unmounted"
    mmGoogle,     \* window.google.maps is available
    mmProps,      \* its properties prop
    mmSel,        \* its selectedProperty prop: NoSel when null
    mm            \* [m, idle, err, last]: refs and widget objects as in mv, the
                  \* synchronisations whose 'idle' listener is attached,
                  \* mapError ("" when null), how the last synchronisation ended
mapVars == <<mmLife, mmGoogle, mmProps, mmSel, mm>>

\* What each subsystem leaves alone.
notAnalysis == <<loaderVars, dashVars, viewVars, apiVars, photoVars, predVars,
    mapVars>>
notLoader == <<analysisVars, dashVars, viewVars, apiVars, photoVars, predVars,
    mapVars>>
notDash == <<analysisVars, loaderVars, viewVars, apiVars, photoVars, predVars,
    mapVars>>
notView == <<analysisVars, loaderVars, dashVars, apiVars, photoVars, predVars,
    mapVars>>
notApi == <<analysisVars, loaderVars, dashVars, viewVars, photoVars, predVars,
    mapVars>>
notPhotos == <<analysisVars, loaderVars, dashVars, viewVars, apiVars, predVars,
    mapVars>>
notMap == <<analysisVars, loaderVars, dashVars, viewVars, apiVars, photoVars,
    predVars>>
notPred == <<analysisVars, loaderVars, dashVars, viewVars, apiVars, photoVars,
    mapVars>>

InitAnalysis ==
    /\ maProperty = None
    /\ maData = None
    /\ maLoading = TRUE
    /\ maError = None
    /\ maInflight = {}
    /\ maIssued = 0

\* The effect on [property]: fetchAnalysis up to its await.
MASelect(q) ==
    /\ q # maProperty
    /\ maProperty' = q
    /\ IF ~HasUrl(q)
         THEN /\ maLoading' = FALSE
              /\ UNCHANGED <<maData, maError, maInflight, maIssued>>
         ELSE /\ maIssued < MaxFetches
              /\ maLoading' = TRUE
              /\ maError' = None
              /\ maIssued' = maIssued + 1
              /\ maInflight' = maInflight \cup {[id |-> q, n |-> maIssued + 1]}
              /\ UNCHANGED maData
    /\ UNCHANGED notAnalysis

\* The awaited axios.get resolves: setAnalysisData(response.data), finally.
MAResolve(r) ==
    /\ r \in maInflight
    /\ maInflight' = maInflight \ {r}
    /\ maData' = r.id
    /\ maLoading' = FALSE
    /\ UNCHANGED <<maProperty, maError, maIssued>>
    /\ UNCHANGED notAnalysis

\* The awaited axios.get rejects: setError(err.message), finally.
MAReject(r) ==
    /\ r \in maInflight
    /\ maInflight' = maInflight \ {r}
    /\ maError' = r.id
    /\ maLoading' = FALSE
    /\ UNCHANGED <<maProperty, maData, maIssued>>
    /\ UNCHANGED notAnalysis

\* What the panel renders: loading, then error, then "no data", then the data.
MADisplayed ==
    IF maLoading THEN <<"loading", None>>
    ELSE IF maError # None THEN <<"error", maError>>
    ELSE IF maData = None THEN <<"nodata", None>>
    ELSE <<"data", maData>>

NextAnalysis ==
    \/ \E q \in PanelProps : MASelect(q)
    \/ \E r \in maInflight : MAResolve(r)
    \/ \E r \in maInflight : MAReject(r)

\* ------------------------------------- GoogleMapsLoader (load-promise variant)
\* Loader instances that may be mounted in one run; a remount is a new instance.
NInst == 2
\* Promises loadGoogleMapsScript may create in one run.
MaxPromises == 3
\* Script elements that may be created in one run.
MaxScripts == 3

Inst == 1..NInst
PromIds == 1..MaxPromises
ScriptIds == 1..MaxScripts


NoScript == [net |-> "none", inDom |-> FALSE, prom |-> None, late |-> FALSE]

InitLoader ==
    /\ apiKey \in BOOLEAN
    /\ googleLoaded = FALSE
    /\ loadPromise = None
    /\ initMap = None
    /\ scripts = [s \in ScriptIds |-> NoScript]
    /\ nScripts = 0
    /\ promState = [p \in PromIds |-> "unused"]
    /\ nProm = 0
    /\ promWaiters = [p \in PromIds |-> <<>>]
    /\ microtasks = <<>>
    /\ lifecycle = [i \in Inst |-> "new"]
    /\ status = [i \in Inst |-> "NOT_LOADED"]
    /\ rendered = [i \in Inst |-> "NOT_LOADED"]
    /\ cleanupSt = [i \in Inst |-> "none"]
    /\ attached = [i \in Inst |-> None]
    /\ onLoadCalls = [i \in Inst |-> 0]

\* The module-level and page-level state the loader functions read and write.
LG == [lp |-> loadPromise, im |-> initMap, sc |-> scripts, ns |-> nScripts,
       ps |-> promState, np |-> nProm, pw |-> promWaiters, mt |-> microtasks]

SetLG(g) ==
    /\ loadPromise' = g.lp
    /\ initMap' = g.im
    /\ scripts' = g.sc
    /\ nScripts' = g.ns
    /\ promState' = g.ps
    /\ nProm' = g.np
    /\ promWaiters' = g.pw
    /\ microtasks' = g.mt

InDom(sc) == {s \in ScriptIds : sc[s].inDom}

MinOf(S) == CHOOSE x \in S : \A y \in S : x <= y

\* document.querySelector('script[src*="maps.googleapis.com"]'): first in the page.
QueryScript(sc) == IF InDom(sc) = {} THEN None ELSE MinOf(InDom(sc))

\* The cleanup callback, closed over the status `st` of the render that made it.
Cleanup(g, st) ==
    IF st = "LOADING"
      THEN LET s == QueryScript(g.sc) IN
           [g EXCEPT !.sc = IF s = None THEN @ ELSE [@ EXCEPT ![s].inDom = FALSE],
                     !.im = None,
                     !.lp = None]
      ELSE g

\* The promise executor without its "already loaded" shortcut.
AlreadyLoaded_Skipped == FALSE

\* The shortcut of the promise executor: the widget is already there.
AlreadyLoaded == googleLoaded

\* existingScripts.forEach(script => script.remove())
RemoveExisting(sc) == [s \in ScriptIds |-> [sc[s] EXCEPT !.inDom = FALSE]]

\* loadGoogleMapsScript(apiKey): the promise returned and the state left behind.
LoadScript(g) ==
    IF g.lp # None THEN [g |-> g, p |-> g.lp]
    ELSE LET p == g.np + 1 IN
         IF AlreadyLoaded
           THEN [g |-> [g EXCEPT !.np = p, !.lp = p, !.ps[p] = "resolved"], p |-> p]
           ELSE LET s == g.ns + 1 IN
                [g |-> [g EXCEPT !.np = p, !.lp = p, !.ps[p] = "pending",
                                 !.im = p, !.ns = s,
                                 !.sc = [RemoveExisting(@) EXCEPT
                                           ![s] = [net |-> "loading", inDom |-> TRUE,
                                                   prom |-> p, late |-> googleLoaded]]],
                 p |-> p]

\* loadGoogleMapsScript would need a promise or a script beyond the run's bounds.
LoadFits(g) ==
    \/ g.lp # None
    \/ /\ g.np < MaxPromises
       /\ (AlreadyLoaded \/ g.ns < MaxScripts)

\* promise.then(onOk).catch(onErr) for instance i.
Attach(g, p, i) ==
    CASE g.ps[p] = "pending"  -> [g EXCEPT !.pw[p] = Append(@, i)]
      [] g.ps[p] = "resolved" -> [g EXCEPT !.mt = Append(@, [inst |-> i, kind |-> "then"])]
      [] OTHER                -> [g EXCEPT !.mt = Append(@, [inst |-> i, kind |-> "catch"])]

Reactions(ws, kind) == [k \in 1..Len(ws) |-> [inst |-> ws[k], kind |-> kind]]

\* resolve() / reject() of promise p: a settled promise ignores it.
Settle(g, p, how) ==
    IF p = None \/ g.ps[p] # "pending" THEN g
    ELSE [g EXCEPT !.ps[p] = how,
                   !.mt = @ \o Reactions(g.pw[p], IF how = "resolved" THEN "then" ELSE "catch"),
                   !.pw[p] = <<>>]

\* setStatus on instance i; React drops a state update of an unmounted component.
SetStatus(st, i, v) == IF lifecycle[i] = "mounted" THEN [st EXCEPT ![i] = v] ELSE st

\* The body of the effect on [onLoad, cleanup], run for a render whose status is rs,
\* on globals g (the state a preceding cleanup left).
RunEffect(i, rs, g) ==
    IF ~apiKey
      THEN /\ status' = [status EXCEPT ![i] = "ERROR"]
           /\ cleanupSt' = [cleanupSt EXCEPT ![i] = "none"]
           /\ attached' = [attached EXCEPT ![i] = None]
           /\ SetLG(g)
      ELSE /\ LoadFits(g)
           /\ LET r == LoadScript(g) IN
                /\ SetLG(Attach(r.g, r.p, i))
                /\ attached' = [attached EXCEPT ![i] = r.p]
           /\ status' = [status EXCEPT ![i] = "LOADING"]
           /\ cleanupSt' = [cleanupSt EXCEPT ![i] = rs]

\* No render and no promise reaction is pending: the page is idle.
Quiescent ==
    /\ microtasks = <<>>
    /\ \A i \in Inst : lifecycle[i] = "mounted" => status[i] = rendered[i]

\* A loader instance mounts: first render (NOT_LOADED) and its effect.
LMount(i) ==
    /\ Quiescent
    /\ lifecycle[i] = "new"
    /\ \A j \in Inst : j < i => lifecycle[j] # "new"
    /\ lifecycle' = [lifecycle EXCEPT ![i] = "mounted"]
    /\ rendered' = [rendered EXCEPT ![i] = "NOT_LOADED"]
    /\ RunEffect(i, "NOT_LOADED", LG)
    /\ UNCHANGED <<apiKey, googleLoaded, onLoadCalls>>
    /\ UNCHANGED notLoader

\* A status change re-renders: `cleanup` is a new callback, so the effect's previous
\* cleanup runs and the effect runs again.
LRender(i) ==
    /\ lifecycle[i] = "mounted"
    /\ status[i] # rendered[i]
    /\ rendered' = [rendered EXCEPT ![i] = status[i]]
    /\ RunEffect(i, status[i], Cleanup(LG, cleanupSt[i]))
    /\ UNCHANGED <<apiKey, googleLoaded, lifecycle, onLoadCalls>>
    /\ UNCHANGED notLoader

\* The instance unmounts: the last effect's cleanup runs.
LUnmount(i) ==
    /\ Quiescent
    /\ lifecycle[i] = "mounted"
    /\ lifecycle' = [lifecycle EXCEPT ![i] = "gone"]
    /\ SetLG(Cleanup(LG, cleanupSt[i]))
    /\ UNCHANGED <<apiKey, googleLoaded, status, rendered, cleanupSt, attached,
                   onLoadCalls>>
    /\ UNCHANGED notLoader

\* A script finishes loading: the widget defines window.google.maps and calls
\* the callback named in the URL, window.initMap, when it is defined.
ScriptLoaded(s) ==
    /\ Quiescent
    /\ scripts[s].net = "loading"
    /\ googleLoaded' = TRUE
    /\ SetLG(Settle([LG EXCEPT !.sc[s].net = "loaded"], initMap, "resolved"))
    /\ UNCHANGED <<apiKey, lifecycle, status, rendered, cleanupSt, attached,
                   onLoadCalls>>
    /\ UNCHANGED notLoader

\* A script fails to load: its 'error' listener clears loadPromise and rejects.
ScriptError(s) ==
    /\ Quiescent
    /\ scripts[s].net = "loading"
    /\ SetLG(Settle([LG EXCEPT !.sc[s].net = "failed", !.lp = None],
                    scripts[s].prom, "rejected"))
    /\ UNCHANGED <<apiKey, googleLoaded, lifecycle, status, rendered, cleanupSt,
                   attached, onLoadCalls>>
    /\ UNCHANGED notLoader

\* The next promise reaction runs: .then sets LOADED and calls onLoad, .catch
\* sets ERROR.
RunReaction ==
    /\ microtasks # <<>>
    /\ LET m == Head(microtasks) IN
         /\ microtasks' = Tail(microtasks)
         /\ IF m.kind = "then"
              THEN /\ status' = SetStatus(status, m.inst, "LOADED")
                   /\ onLoadCalls' = [onLoadCalls EXCEPT ![m.inst] = @ + 1]
              ELSE /\ status' = SetStatus(status, m.inst, "ERROR")
                   /\ UNCHANGED onLoadCalls
    /\ UNCHANGED <<apiKey, googleLoaded, loadPromise, initMap, scripts, nScripts,
                   promState, nProm, promWaiters, lifecycle, rendered, cleanupSt,
                   attached>>
    /\ UNCHANGED notLoader

NextLoader ==
    \/ \E i \in Inst : LMount(i)
    \/ \E i \in Inst : LRender(i)
    \/ \E i \in Inst : LUnmount(i)
    \/ \E s \in ScriptIds : ScriptLoaded(s)
    \/ \E s \in ScriptIds : ScriptError(s)
    \/ RunReaction

\* ------------------------------------------------------- JavaScript values
\* A JavaScript value as far as the coordinate and price code tells values
\* apart: a number, NaN, null, undefined, a numeric or a non-numeric string.
NumV(k) == [t |-> "num", n |-> k]
NaNV == [t |-> "nan", n |-> 0]
UndefV == [t |-> "undef", n |-> 0]
\* A string given by its characters.
StrV(m) == [t |-> "str", n |-> 0, s |-> m]

Elems(q) == {q[k] : k \in 1..Len(q)}

Digits == <<"0", "1", "2", "3", "4", "5", "6", "7", "8", "9">>
DigitChars == Elems(Digits)
DigitVal(c) == (CHOOSE k \in 1..10 : Digits[k] = c) - 1

\* The value is used as typed.
StripPrice_Skipped(m) == m

\* maxPrice.replace(/[^0-9.-]+/g, '')
StripPrice(m) == SelectSeq(m, LAMBDA c : c \in DigitChars \cup {".", "-"})

RECURSIVE DigitsVal(_)
DigitsVal(m) ==
    IF m = <<>> THEN 0
    ELSE 10 * DigitsVal(SubSeq(m, 1, Len(m) - 1)) + DigitVal(m[Len(m)])

\* Number(m) for a string of digits, or of digits with other characters left
\* in it (the strings stripping leaves here hold no "." and no "-").
StrNumber(m) ==
    IF m = <<>> THEN NumV(0)
    ELSE IF Elems(m) \subseteq DigitChars THEN NumV(DigitsVal(m))
    ELSE NaNV

\* Number(String(v).replace(/[^0-9.-]+/g, ''))
StripToNumber(v) ==
    CASE v.t = "num" -> v
      [] v.t = "str" -> StrNumber(StripPrice(v.s))
      [] v.t = "numstr" -> NumV(v.n)
      [] OTHER -> NumV(0)

\* Number(v)
ToNumber(v) ==
    CASE v.t = "num" -> v
      [] v.t = "numstr" -> NumV(v.n)
      [] v.t \in {"null", "empty"} -> NumV(0)
      [] OTHER -> NaNV

\* isNaN(v) of a number
IsNaN(v) == v.t = "nan"

\* The truthiness of v in `a && b` and `if (v)`
Truthy(v) ==
    \/ (v.t = "num" /\ v.n # 0)
    \/ v.t \in {"numstr", "badstr"}
    \/ (v.t = "str" /\ v.s # <<>>)

\* parseFloat(v)
ParseFloat(v) ==
    CASE v.t = "num" -> v
      [] v.t = "numstr" -> NumV(v.n)
      [] OTHER -> NaNV

\* ------------------------------------------------ records the backend returns
\* The records a scrape response may contain; record r has property_id r.
Recs == {1, 2, 3, 4}

\* The records a loaded property set may hold when the filtered view and the
\* property list are computed from it.
ViewRecs == {3, 4, 5, 6, 7}

RawLat(r) ==
    CASE r = 1 -> NumV(28)
      [] r = 2 -> NumV(0)
      [] r = 3 -> NumV(95)
      [] OTHER -> NumV(27)

RawLng(r) == IF r = 4 THEN NumV(-82) ELSE NumV(-81)

RawZip(r) == "32801"

RawPrice(r) ==
    CASE r = 1 -> 300
      [] r = 2 -> 350
      [] r = 5 -> 1000
      [] r = 7 -> 1200
      [] OTHER -> 200

RawStatus(r) ==
    CASE r = 6 -> "Sold"
      [] OTHER -> "ACTIVE"

\* The fields of the processed record (PropertyFilter's map step).
PLat(r) == ToNumber(RawLat(r))
PLng(r) == ToNumber(RawLng(r))
PZip(r) == RawZip(r)
PPrice(r) == NumV(RawPrice(r))
PStatus(r) == RawStatus(r)

\* Coordinates are numbers in range: the test of PropertyFilter's filter step.
InRange(lat, lng) ==
    /\ ~IsNaN(lat) /\ ~IsNaN(lng)
    /\ lat.n >= -90 /\ lat.n <= 90
    /\ lng.n >= -180 /\ lng.n <= 180

ValidCoords(r) == InRange(ToNumber(RawLat(r)), ToNumber(RawLng(r)))

\* processedProperties: the records that pass the coordinate filter, mapped.
Process(payload) == SelectSeq(payload, ValidCoords)

RECURSIVE SeqOf(_)
\* The elements of a set of records in ascending order.
SeqOf(S) == IF S = {} THEN <<>> ELSE <<MinOf(S)>> \o SeqOf(S \ {MinOf(S)})

\* --------------------------------------------------------------- Dashboard
NoSel == [id |-> None, ver |-> 0]

\* The status is compared as it is spelled.
Upper_AsSpelled(st) == st

\* status.toUpperCase()
Upper(st) ==
    CASE st = "Sold" -> "SOLD"
      [] st = "pending" -> "PENDING"
      [] st = "closed" -> "CLOSED"
      [] OTHER -> st

\* The predicate of filteredProperties for record r under filters f.
FilterOk(r, f) ==
    /\ Upper(PStatus(r)) \notin {"PENDING", "SOLD", "CLOSED"}
    /\ ~(f.zip # "" /\ PZip(r) # f.zip)
    /\ ~(/\ Truthy(f.max)
         /\ ~IsNaN(StripToNumber(f.max))
         /\ ~IsNaN(PPrice(r))
         /\ PPrice(r).n > StripToNumber(f.max).n)

\* filteredProperties
Filtered(props, f) == SelectSeq(props, LAMBDA r : FilterOk(r, f))

\* ---------------------------------------------------------- PropertyFilter
\* What the form fields can hold when the form is submitted. The max-price
\* field only ever holds digits and grouping commas (its onChange strips \D).
ZipInputs == {"32801"}
MaxPriceInputs == {<<>>, <<"0">>, <<"5", "0", "0">>, <<"1", ",", "0", "0", "0">>}

\* Every max price is let through.
InvalidMaxPrice_Never(num) == FALSE

\* isNaN(maxPriceNum) || maxPriceNum <= 0
InvalidMaxPrice(num) == IsNaN(num) \/ num.n <= 0

\* The search button stays enabled while a search is in flight.
SubmitEnabled_Always == TRUE

\* The search button is enabled (disabled={loading}).
SubmitEnabled == ~fLoading

\* ------------------------------------------------------------------ MapView
NoWin == <<0, 0>>

\* The marker / info window made for property p by synchronisation g.
Win(p, g) == <<p, g>>

InitMapView ==
    [gen |-> 0,        \* synchronisations run so far
     map |-> FALSE,    \* googleMapRef.current is set
     markers |-> {},   \* keys of markersRef.current (all made by synchronisation gen)
     onMap |-> {},     \* markers whose map is set
     lst |-> {},       \* markers whose click/mouseover/mouseout listeners are attached
     open |-> {},      \* open info windows: [w, mode], mode "sel" or "hov"
     sel |-> NoWin,    \* selectedInfoWindowRef.current
     hov |-> NoWin,    \* hoveredInfoWindowRef.current
     csel |-> None,    \* selectedProperty id the marker listeners closed over
     peak |-> 0,       \* most windows open as selected at once during the last handler
     log |-> <<>>,     \* widget open/close calls of the last handler
     pan |-> None,     \* the property whose marker the map was last panned to
     out |-> None]     \* the property whose marker the pointer left in the last handler

SelCount(open) == Cardinality({o \in open : o.mode = "sel"})

MaxNat(a, b) == IF a >= b THEN a ELSE b

\* A handler starts: the per-handler observations are reset.
StartHandler(m) == [m EXCEPT !.peak = SelCount(m.open), !.log = <<>>, !.out = None]

\* infoWindow.close()
WClose(m, w) ==
    LET was == IF \E o \in m.open : o.w = w
                 THEN (CHOOSE o \in m.open : o.w = w).mode ELSE "closed"
    IN [m EXCEPT !.open = {o \in @ : o.w # w},
                 !.log = Append(@, [op |-> "close", w |-> w, was |-> was])]

\* infoWindow.open(map, marker), on behalf of a selection or of a hover. A window
\* already open as the selected one stays the selected one.
WOpen(m, w, mode) ==
    LET keep == \E o \in m.open : o.w = w /\ o.mode = "sel"
        op == {o \in m.open : o.w # w}
                \cup {[w |-> w, mode |-> IF keep THEN "sel" ELSE mode]}
    IN [m EXCEPT !.open = op,
                 !.peak = MaxNat(@, SelCount(op)),
                 !.log = Append(@, [op |-> "open", w |-> w, was |-> mode])]

\* The click listener leaves the previously selected window open.
CloseSelected_Skipped(m) == m

\* if (selectedInfoWindowRef.current) selectedInfoWindowRef.current.close()
CloseSelected(m) == IF m.sel # NoWin THEN WClose(m, m.sel) ELSE m

\* The hovered window is left as it is.
CloseHovered_Skipped(m) == m

\* if (hoveredInfoWindowRef.current) { ....close(); hoveredInfoWindowRef.current = null }
CloseHovered(m) == IF m.hov # NoWin THEN [WClose(m, m.hov) EXCEPT !.hov = NoWin] ELSE m

\* The marker's click listener, apart from its onPropertySelect call.
ClickListener(m, p) ==
    LET w == Win(p, m.gen) IN
    [WOpen(CloseHovered(CloseSelected(m)), w, "sel") EXCEPT !.sel = w]

\* The marker's mouseover listener.
MouseoverListener(m, p) ==
    IF m.csel = None \/ m.csel # p
      THEN LET w == Win(p, m.gen)
               c == IF m.hov # NoWin THEN WClose(m, m.hov) ELSE m
           IN [WOpen(c, w, "hov") EXCEPT !.hov = w]
      ELSE m

\* The marker's mouseout listener.
MouseoutListener(m, p) ==
    LET w == Win(p, m.gen) IN
    IF m.hov = w THEN [WClose(m, w) EXCEPT !.hov = NoWin] ELSE m

\* The cleanup of the synchronisation effect.
SyncCleanup(m) ==
    LET mine == {Win(p, m.gen) : p \in m.markers} IN
    [m EXCEPT !.lst = @ \ mine, !.onMap = @ \ mine, !.markers = {}]

\* property.latitude && property.longitude
HasCoords(r) == Truthy(PLat(r)) /\ Truthy(PLng(r))

\* The synchronisation effect for the list `props`, rendered with selection s.
Sync(m, props, s) ==
    LET g == m.gen + 1
        made == {r \in Elems(props) : HasCoords(r)}
        wins == {Win(p, g) : p \in made}
    IN [m EXCEPT !.gen = g, !.map = TRUE, !.markers = made,
                 !.onMap = @ \cup wins, !.lst = @ \cup wins, !.csel = s.id]

\* The registry is not consulted.
NoMarkerFor_Ignored(m, s) == FALSE

\* !markersRef.current[selectedProperty.property_id]
NoMarkerFor(m, s) == s.id \notin m.markers

\* The effect on [selectedProperty].
SelectedEffect(m, s) ==
    IF ~m.map \/ s = NoSel \/ NoMarkerFor(m, s) THEN m
    ELSE LET w == Win(s.id, m.gen)
             c == IF m.sel # NoWin /\ m.sel # w THEN WClose(m, m.sel) ELSE m
         IN [WOpen(CloseHovered(c), w, "sel") EXCEPT !.sel = w, !.pan = s.id]

\* MapView's part of a Dashboard commit: the effects whose dependencies changed.
Commit(m, props, s, listChanged, selChanged) ==
    IF ~mvMounted THEN m
    ELSE LET a == IF listChanged \/ selChanged
                    THEN Sync(SyncCleanup(m), props, s) ELSE m
         IN IF selChanged THEN SelectedEffect(a, s) ELSE a

\* A commit that synchronises makes a new generation of marker objects.
CommitFits == mvMounted => mv.gen < MaxGen

InitDash ==
    /\ dProps = <<>>
    /\ dVer = 0
    /\ dFilters = [zip |-> "", max |-> UndefV]
    /\ dSelected = NoSel
    /\ fLoading = FALSE
    /\ fError = ""
    /\ fInflight = {}
    /\ fIssued = 0
    /\ fOutcome = [n \in 1..MaxSearches |-> "none"]
    /\ mvMounted = FALSE
    /\ mv = InitMapView
    /\ dScript = (IF apiKey THEN "loading" ELSE "none")
    /\ dAttempts = 0

\* The loader's script fires 'load': onLoad() is handleGoogleMapsLoad; MapView
\* mounts and both its effects run.
MapsLoaded ==
    /\ ~mvMounted
    /\ dScript = "loading"
    /\ dScript' = "loaded"
    /\ mvMounted' = TRUE
    /\ mv' = SelectedEffect(Sync(StartHandler(mv), Filtered(dProps, dFilters),
                                 dSelected), dSelected)
    /\ UNCHANGED <<dProps, dVer, dFilters, dSelected, fLoading, fError,
                   fInflight, fIssued, fOutcome>>
    /\ UNCHANGED dAttempts
    /\ UNCHANGED notDash

\* handleSubmit up to its await, with the fields holding zip z and max price m.
Submit(z, m) ==
    /\ SubmitEnabled
    /\ LET num == StrNumber(StripPrice(m)) IN
       IF InvalidMaxPrice(num)
         THEN /\ fError' = "Please enter a valid maximum price"
              /\ fLoading' = FALSE
              /\ UNCHANGED <<fInflight, fIssued, fOutcome>>
         ELSE /\ fIssued < MaxSearches
              /\ fError' = ""
              /\ fLoading' = TRUE
              /\ fIssued' = fIssued + 1
              /\ fInflight' = fInflight \cup {[n |-> fIssued + 1, zip |-> z, max |-> num]}
              /\ fOutcome' = [fOutcome EXCEPT ![fIssued + 1] = "sent"]
    /\ UNCHANGED <<dProps, dVer, dFilters, dSelected, mvMounted, mv>>
    /\ UNCHANGED <<dScript, dAttempts>>
    /\ UNCHANGED notDash

\* handlePropertiesLoaded after the two onFilterChange calls of request q.
LoadedFilters(q, processed) ==
    IF Len(processed) > 0
      THEN [zip |-> PZip(processed[1]), max |-> PPrice(processed[1])]
      ELSE [zip |-> q.zip, max |-> q.max]

\* The scrape response of request q arrives with the records S.
ResponseOk(q, S) ==
    /\ q \in fInflight
    /\ CommitFits
    /\ LET processed == Process(SeqOf(S))
           f == LoadedFilters(q, processed)
       IN /\ dProps' = processed
          /\ dFilters' = f
          /\ mv' = Commit(StartHandler(mv), Filtered(processed, f), dSelected,
                          TRUE, FALSE)
    /\ dVer' = q.n
    /\ fInflight' = fInflight \ {q}
    /\ fOutcome' = [fOutcome EXCEPT ![q.n] = "ok"]
    /\ fLoading' = FALSE
    /\ UNCHANGED <<dSelected, fError, fIssued, mvMounted>>
    /\ UNCHANGED <<dScript, dAttempts>>
    /\ UNCHANGED notDash

\* The submitted criteria are handed to the Dashboard although the request failed.
FiltersOnFailure_Submitted(q, f) == [zip |-> q.zip, max |-> q.max]

\* The Dashboard filters after request q failed: the throw precedes both
\* onFilterChange calls, so they stay f.
FiltersOnFailure(q, f) == f

\* The request fails, or its response has no `properties`: catch and finally.
ResponseFailed(q, msg) ==
    /\ q \in fInflight
    /\ fInflight' = fInflight \ {q}
    /\ fOutcome' = [fOutcome EXCEPT ![q.n] = "failed"]
    /\ fError' = msg
    /\ fLoading' = FALSE
    /\ dFilters' = FiltersOnFailure(q, dFilters)
    /\ UNCHANGED <<dProps, dVer, dSelected, fIssued, mvMounted, mv>>
    /\ UNCHANGED <<dScript, dAttempts>>
    /\ UNCHANGED notDash

\* handlePropertySelect(property) and the commit that follows.
SelectProperty(m, p) ==
    LET s == [id |-> p, ver |-> dVer] IN
    /\ dSelected' = s
    /\ mv' = Commit(m, Filtered(dProps, dFilters), s, FALSE, s # dSelected)

\* A card of the property list is clicked.
ListSelect(p) ==
    /\ p \in Elems(Filtered(dProps, dFilters))
    /\ [id |-> p, ver |-> dVer] # dSelected => CommitFits
    /\ SelectProperty(StartHandler(mv), p)
    /\ UNCHANGED <<dProps, dVer, dFilters, fLoading, fError, fInflight, fIssued,
                   fOutcome, mvMounted>>
    /\ UNCHANGED <<dScript, dAttempts>>
    /\ UNCHANGED notDash

\* The marker of property p is clicked.
MarkerClick(p) ==
    /\ mvMounted
    /\ Win(p, mv.gen) \in mv.lst
    /\ [id |-> p, ver |-> dVer] # dSelected => CommitFits
    /\ SelectProperty(ClickListener(StartHandler(mv), p), p)
    /\ UNCHANGED <<dProps, dVer, dFilters, fLoading, fError, fInflight, fIssued,
                   fOutcome, mvMounted>>
    /\ UNCHANGED <<dScript, dAttempts>>
    /\ UNCHANGED notDash

\* The pointer enters the marker of property p.
MarkerOver(p) ==
    /\ mvMounted
    /\ Win(p, mv.gen) \in mv.lst
    /\ mv' = MouseoverListener(StartHandler(mv), p)
    /\ UNCHANGED <<dProps, dVer, dFilters, dSelected, fLoading, fError, fInflight,
                   fIssued, fOutcome, mvMounted>>
    /\ UNCHANGED <<dScript, dAttempts>>
    /\ UNCHANGED notDash

\* The pointer leaves the marker of property p.
MarkerOut(p) ==
    /\ mvMounted
    /\ Win(p, mv.gen) \in mv.lst
    /\ mv' = [MouseoutListener(StartHandler(mv), p) EXCEPT !.out = p]
    /\ UNCHANGED <<dProps, dVer, dFilters, dSelected, fLoading, fError, fInflight,
                   fIssued, fOutcome, mvMounted>>
    /\ UNCHANGED <<dScript, dAttempts>>
    /\ UNCHANGED notDash

\* The loader's script fires 'error': the listener logs it.
MapScriptError ==
    /\ dScript = "loading"
    /\ dScript' = "error"
    /\ UNCHANGED <<dProps, dVer, dFilters, dSelected, fLoading, fError, fInflight,
                   fIssued, fOutcome, mvMounted, mv, dAttempts>>
    /\ UNCHANGED notDash

\* The retry timer of the Dashboard fires.
MapRetryTick ==
    /\ ~mvMounted
    /\ dAttempts < MapLoadRetries
    /\ dAttempts' = dAttempts + 1
    /\ UNCHANGED <<dProps, dVer, dFilters, dSelected, fLoading, fError, fInflight,
                   fIssued, fOutcome, mvMounted, mv, dScript>>
    /\ UNCHANGED notDash

\* What the right panel of the Dashboard shows.
MapPanel ==
    IF mvMounted THEN "map"
    ELSE IF dAttempts > 0 THEN "loading, attempt shown" ELSE "loading"

NextDash ==
    \/ MapsLoaded
    \/ \E z \in ZipInputs, m \in MaxPriceInputs : Submit(z, m)
    \/ \E q \in fInflight, S \in SUBSET Recs : ResponseOk(q, S)
    \/ \E q \in fInflight :
         \E msg \in {"No properties data in response", "Network Error"} :
            ResponseFailed(q, msg)
    \/ \E p \in Recs : ListSelect(p)
    \/ \E p \in Recs : MarkerClick(p)
    \/ \E p \in Recs : MarkerOver(p)
    \/ \E p \in Recs : MarkerOut(p)
    \/ MapScriptError
    \/ MapRetryTick

\* ------------------------------------- filtered view and PropertyList render
RECURSIVE ListsOfLen(_)
\* The sequences of n distinct records.
ListsOfLen(n) ==
    IF n = 0 THEN {<<>>}
    ELSE UNION {{Append(q, r) : r \in ViewRecs \ Elems(q)} : q \in ListsOfLen(n - 1)}

\* The property sets setProperties may be given.
PropLists == UNION {ListsOfLen(n) : n \in 0..MaxListLen}

\* The values filters.maxPrice and filters.zipCode may hold.
MaxFilters ==
    {UndefV, NumV(0), NumV(1000), StrV(<<"1", ",", "0", "0", "0">>),
     StrV(<<"$", "1", "0", "0", "0">>)}

ZipFilters == {"", "32801"}

RECURSIVE InsertDesc(_, _)
\* x put into the sorted sequence q behind every element the comparator
\* (a, b) => b.list_price - a.list_price does not order after it.
InsertDesc(q, x) ==
    IF q = <<>> THEN <<x>>
    ELSE IF PPrice(q[Len(q)]).n >= PPrice(x).n THEN Append(q, x)
    ELSE Append(InsertDesc(SubSeq(q, 1, Len(q) - 1), x), q[Len(q)])

RECURSIVE SortDesc(_)
\* arr.sort((a, b) => b.list_price - a.list_price): a stable sort.
SortDesc(arr) ==
    IF arr = <<>> THEN <<>>
    ELSE InsertDesc(SortDesc(SubSeq(arr, 1, Len(arr) - 1)), arr[Len(arr)])

\* properties.sort(...): the caller's array is sorted in place.
Sorted_InPlace(arr) == [caller |-> SortDesc(arr), out |-> SortDesc(arr)]

\* [...properties].sort(...): the array of the caller and the sorted copy.
Sorted(arr) == [caller |-> arr, out |-> SortDesc(arr)]

InitView ==
    /\ vProps = <<>>
    /\ vFilters = [zip |-> "", max |-> UndefV]
    /\ vShown = <<>>
    /\ vCards = <<>>
    /\ vSel = None

\* Dashboard renders: filteredProperties is computed and PropertyList renders it.
RenderView(props, f) ==
    LET r == Sorted(Filtered(props, f)) IN
    /\ vShown' = r.caller
    /\ vCards' = r.out

\* setProperties(props) and the render that follows.
VSetProperties(props) ==
    /\ vProps' = props
    /\ RenderView(props, vFilters)
    /\ UNCHANGED <<vFilters, vSel>>
    /\ UNCHANGED notView

\* setFilters(f) and the render that follows.
VSetFilters(f) ==
    /\ vFilters' = f
    /\ RenderView(vProps, f)
    /\ UNCHANGED <<vProps, vSel>>
    /\ UNCHANGED notView

\* The card of property p is clicked: the selection changes and PropertyList
\* renders again with the array it was given before.
VCardClick(p) ==
    /\ p \in Elems(vCards)
    /\ vSel' = p
    /\ LET r == Sorted(vShown) IN vShown' = r.caller /\ vCards' = r.out
    /\ UNCHANGED <<vProps, vFilters>>
    /\ UNCHANGED notView

NextView ==
    \/ \E props \in PropLists : VSetProperties(props)
    \/ \E z \in ZipFilters, m \in MaxFilters : VSetFilters([zip |-> z, max |-> m])
    \/ \E p \in ViewRecs : VCardClick(p)

\* --------------------------------------------------------------- API client
ApiFns == {"fetchProperties", "scrapeProperties", "predictProperty"}

\* How a request can fail: no response, or a response with a non-2xx status.
ApiFailures == {"transport", "status"}

InitApi == apiCalls = <<>>

\* The catch block of every function re-raises.
OnFailure_Rethrow(fn, err) == [st |-> "raised", val |-> err]

\* The catch block of fn for the error err.
OnFailure(fn, err) ==
    IF fn = "fetchProperties"
      THEN [st |-> "returned", val |-> "{properties: []}"]
      ELSE [st |-> "raised", val |-> err]

\* fn is called: it issues its axios request and awaits it.
ApiCall(fn) ==
    /\ Len(apiCalls) < MaxCalls
    /\ apiCalls' = Append(apiCalls,
          [fn |-> fn, net |-> "pending", st |-> "pending", val |-> "none", reqs |-> 1])
    /\ UNCHANGED notApi

\* The request of call k is answered with a 2xx response: return response.data.
ApiSucceed(k) ==
    /\ apiCalls[k].net = "pending"
    /\ apiCalls' = [apiCalls EXCEPT ![k].net = "ok", ![k].st = "returned",
                                     ![k].val = "response.data"]
    /\ UNCHANGED notApi

\* The request of call k fails: the catch block runs.
ApiFail(k, err) ==
    /\ apiCalls[k].net = "pending"
    /\ LET o == OnFailure(apiCalls[k].fn, err) IN
       apiCalls' = [apiCalls EXCEPT ![k].net = err, ![k].st = o.st, ![k].val = o.val]
    /\ UNCHANGED notApi

NextApi ==
    \/ \E fn \in ApiFns : ApiCall(fn)
    \/ \E k \in 1..Len(apiCalls) : ApiSucceed(k)
    \/ \E k \in 1..Len(apiCalls), err \in ApiFailures : ApiFail(k, err)


\* ------------------------------------------------------------------ photos
\* A string is the sequence of its comma-separated parts, each without outer
\* blanks: <<"N/A">> is 'N/A', <<HttpUrl, "N/A">> is 'HttpUrl, N/A', <<"">> ''.
HttpUrl == "http://host/1.jpg"
PhotoParts == {HttpUrl, "N/A", ""}
NoPhoto == <<>>
PhotoStrings == UNION {[1..n -> PhotoParts] : n \in 1..MaxPhotos}
UndefPhotos == [t |-> "undef"]
StrPhotos(s) == [t |-> "str", s |-> s]
ArrPhotos(a) == [t |-> "arr", a |-> a]
\* What a photos or alt_photos field of a response record can hold.
PhotoValues ==
    {UndefPhotos} \cup {StrPhotos(s) : s \in PhotoStrings}
      \cup {ArrPhotos(a) : a \in UNION {[1..n -> {<<x>> : x \in PhotoParts}]
                                          : n \in 0..MaxPhotos}}

\* JavaScript truthiness of a field: undefined and '' are falsy, [] is not.
PhotoTruthy(v) == v.t = "arr" \/ (v.t = "str" /\ v.s # <<"">>)

\* s.split(',').map(url => url.trim())
SplitTrim(s) == [i \in 1..Len(s) |-> <<s[i]>>]

\* processedPhotos of PropertyFilter for the fields photos and alt.
ProcessPhotos(photos, alt) ==
    IF PhotoTruthy(photos)
      THEN (IF photos.t = "arr" THEN photos.a ELSE <<photos.s>>)
      ELSE IF PhotoTruthy(alt)
        THEN (IF alt.t = "arr" THEN alt.a ELSE SplitTrim(alt.s))
        ELSE <<>>

\* url.startsWith('http')
StartsWithHttp(s) == s[1] = HttpUrl
\* url && url.trim() !== ''
NonBlank(s) == s # <<"">>
\* s is one HTTP URL.
IsHttpUrl(s) == s = <<HttpUrl>>

\* PropertyCard getPhotoUrl for the processed array photos.
GetPhotoUrl(photos, imageError) ==
    IF imageError THEN NoPhoto
    ELSE IF Len(photos) > 0 /\ NonBlank(photos[1]) THEN photos[1]
    ELSE NoPhoto

\* The src of the image in createInfoWindowContent, NoPhoto for the placeholder.
PopupPhoto(photos) ==
    IF Len(photos) > 0 /\ NonBlank(photos[1]) /\ StartsWithHttp(photos[1])
      THEN photos[1] ELSE NoPhoto

\* The record before a response has been received.
NoRecord == [photos |-> UndefPhotos, alt |-> UndefPhotos]

InitPhotos ==
    /\ phRaw = NoRecord
    /\ phNorm = <<>>
    /\ phImageError = FALSE
    /\ phCard = NoPhoto
    /\ phPopup = NoPhoto

\* The record of a response, with these photo fields, is processed by
\* PropertyFilter, then rendered by a new PropertyCard and by the popup of its
\* marker. One record is followed per run.
PhotosLoaded(photos, alt) ==
    LET n == ProcessPhotos(photos, alt) IN
    /\ phRaw = NoRecord
    /\ phRaw' = [photos |-> photos, alt |-> alt]
    /\ phNorm' = n
    /\ phImageError' = FALSE
    /\ phCard' = GetPhotoUrl(n, FALSE)
    /\ phPopup' = PopupPhoto(n)
    /\ UNCHANGED notPhotos

\* The browser fails to load the card's image: handleImageError, and the
\* effect on [property, imageError] computes photoUrl again.
ImageError ==
    /\ phCard # NoPhoto
    /\ phImageError' = TRUE
    /\ phCard' = GetPhotoUrl(phNorm, TRUE)
    /\ UNCHANGED <<phRaw, phNorm, phPopup>>
    /\ UNCHANGED notPhotos

NextPhotos ==
    \/ \E photos \in PhotoValues, alt \in PhotoValues : PhotosLoaded(photos, alt)
    \/ ImageError


\* --------------------------------------------------------- PricePrediction
PredIds == {1, 2}
FetchFailed == "Failed to fetch prediction data"

\* Mounted without a propertyId: loading starts true and no fetch is made.
InitPred ==
    /\ ppId = None
    /\ ppData = None
    /\ ppLoading = TRUE
    /\ ppError = ""
    /\ ppInflight = {}
    /\ ppIssued = 0

\* The propertyId prop changes to q: the effect on [propertyId] runs and,
\* for a q that is set, fetchPredictionData runs up to its await.
PPSetId(q) ==
    /\ q # ppId
    /\ ppId' = q
    /\ IF q # None
         THEN /\ ppIssued < MaxPredictions
              /\ ppLoading' = TRUE
              /\ UNCHANGED ppError
              /\ ppIssued' = ppIssued + 1
              /\ ppInflight' = ppInflight \cup {[n |-> ppIssued + 1, id |-> q]}
         ELSE UNCHANGED <<ppLoading, ppError, ppIssued, ppInflight>>
    /\ UNCHANGED ppData
    /\ UNCHANGED notPred

\* The fetch r is answered with response.ok: data set, then finally.
PPResolve(r) ==
    /\ r \in ppInflight
    /\ ppInflight' = ppInflight \ {r}
    /\ ppData' = r.id
    /\ ppLoading' = FALSE
    /\ UNCHANGED <<ppId, ppError, ppIssued>>
    /\ UNCHANGED notPred

\* The fetch r fails (network error or a response that is not ok): catch,
\* then finally.
PPReject(r) ==
    /\ r \in ppInflight
    /\ ppInflight' = ppInflight \ {r}
    /\ ppError' = FetchFailed
    /\ ppLoading' = FALSE
    /\ UNCHANGED <<ppId, ppData, ppIssued>>
    /\ UNCHANGED notPred

\* What the component renders.
PPDisplayed ==
    IF ppLoading THEN <<"loading", None>>
    ELSE IF ppError # "" THEN <<"error", None>>
    ELSE IF ppData = None THEN <<"none", None>>
    ELSE <<"data", ppData>>

NextPred ==
    \/ \E q \in PredIds \cup {None} : PPSetId(q)
    \/ \E r \in ppInflight : PPResolve(r)
    \/ \E r \in ppInflight : PPReject(r)


\* ------------------------------------------------------- MapView on its own
\* The records a parent can hand to MapView: 1 and 4 as processed by
\* PropertyFilter, 8 with coordinates but without list_price.
MapRecs == {1, 4, 8}
\* property.list_price is undefined: list_price.toLocaleString() throws.
PopupThrows(r) == r = 8
MapLists ==
    UNION {{q \in [1..n -> MapRecs] : \A i, j \in 1..n : i # j => q[i] # q[j]}
             : n \in 0..MaxListLen}
MapSelections == {NoSel} \cup {[id |-> p, ver |-> 0] : p \in MapRecs}

InitialisingError == "Map is still initializing..."
PopupError == "Cannot read properties of undefined (reading 'toLocaleString')"

InitMap ==
    /\ mmLife = "new"
    /\ mmGoogle = FALSE
    /\ mmProps = <<>>
    /\ mmSel = NoSel
    /\ mm = [m |-> InitMapView, idle |-> {}, err |-> "", last |-> "none"]

\* The position in props of the first record whose popup cannot be built, 0
\* when there is none. A record without coordinates gets no popup.
FirstThrow(props) ==
    LET bad == {i \in 1..Len(props) : HasCoords(props[i]) /\ PopupThrows(props[i])}
    IN IF bad = {} THEN 0 ELSE MinOf(bad)

\* One run of the synchronisation effect. With the widget missing it reports
\* the error and returns. Otherwise the records are handled in order: the
\* marker is placed, then its popup built, its listeners attached and the pair
\* stored; an exception ends the loop and is reported; a run that made a
\* marker and did not throw attaches a listener for the map's next 'idle'.
SyncRun(x, props, s, google) ==
    IF ~google THEN [x EXCEPT !.err = InitialisingError, !.last = "guard"]
    ELSE LET k == FirstThrow(props) IN
         IF k = 0
           THEN LET n == Sync(x.m, props, s) IN
                [x EXCEPT !.m = n, !.last = "ok",
                          !.idle = IF n.markers # {} THEN @ \cup {n.gen} ELSE @]
           ELSE LET n == Sync(x.m, SubSeq(props, 1, k - 1), s) IN
                [x EXCEPT !.m = [n EXCEPT !.onMap = @ \cup {Win(props[k], n.gen)}],
                          !.last = "caught", !.err = PopupError]

\* The cleanup the last run returned, if it returned one.
CleanupRun(x) ==
    IF x.last \in {"ok", "caught"} THEN [x EXCEPT !.m = SyncCleanup(x.m)] ELSE x

\* Each run that passes the guard makes a new generation of widget objects.
MapFits == mm.m.gen < MaxGen

\* MapView is mounted with these props: both effects run.
MMMount(props, s) ==
    /\ mmLife = "new"
    /\ mmLife' = "mounted"
    /\ mmProps' = props
    /\ mmSel' = s
    /\ LET a == SyncRun(mm, props, s, mmGoogle) IN
       mm' = [a EXCEPT !.m = SelectedEffect(a.m, s)]
    /\ UNCHANGED mmGoogle
    /\ UNCHANGED notMap

\* The parent passes a new properties array.
MMSetProps(props) ==
    /\ mmLife = "mounted"
    /\ props # mmProps
    /\ MapFits
    /\ mmProps' = props
    /\ mm' = SyncRun(CleanupRun(mm), props, mmSel, mmGoogle)
    /\ UNCHANGED <<mmLife, mmGoogle, mmSel>>
    /\ UNCHANGED notMap

\* The parent passes a new selectedProperty.
MMSetSelected(s) ==
    /\ mmLife = "mounted"
    /\ s # mmSel
    /\ MapFits
    /\ mmSel' = s
    /\ LET a == SyncRun(CleanupRun(mm), mmProps, s, mmGoogle) IN
       mm' = [a EXCEPT !.m = SelectedEffect(a.m, s)]
    /\ UNCHANGED <<mmLife, mmGoogle, mmProps>>
    /\ UNCHANGED notMap

\* The widget script finishes loading.
MMGoogleReady ==
    /\ ~mmGoogle
    /\ mmGoogle' = TRUE
    /\ UNCHANGED <<mmLife, mmProps, mmSel, mm>>
    /\ UNCHANGED notMap

\* The map fires 'idle': every attached idle listener runs and removes itself.
MMIdle ==
    /\ mm.idle # {}
    /\ mm' = [mm EXCEPT !.idle = {}]
    /\ UNCHANGED <<mmLife, mmGoogle, mmProps, mmSel>>
    /\ UNCHANGED notMap

\* MapView is unmounted: the cleanup of the last run, if any, runs.
MMUnmount ==
    /\ mmLife = "mounted"
    /\ mmLife' = "unmounted"
    /\ mm' = CleanupRun(mm)
    /\ UNCHANGED <<mmGoogle, mmProps, mmSel>>
    /\ UNCHANGED notMap

NextMap ==
    \/ \E props \in MapLists, s \in MapSelections : MMMount(props, s)
    \/ \E props \in MapLists : MMSetProps(props)
    \/ \E s \in MapSelections : MMSetSelected(s)
    \/ MMGoogleReady
    \/ MMIdle
    \/ MMUnmount

vars == <<analysisVars, loaderVars, dashVars, viewVars, apiVars, photoVars,
          predVars, mapVars>>

\* ---------------------------------------------------------- specifications
Init ==
    /\ InitAnalysis /\ InitLoader /\ InitDash /\ InitView /\ InitApi
    /\ InitPhotos /\ InitPred /\ InitMap

SpecAnalysis == Init /\ [][NextAnalysis]_vars

SpecLoader == Init /\ [][NextLoader]_vars

SpecDash == Init /\ [][NextDash]_vars

SpecView == Init /\ [][NextView]_vars

SpecApi == Init /\ [][NextApi]_vars

SpecPhotos == Init /\ [][NextPhotos]_vars

SpecPred == Init /\ [][NextPred]_vars

SpecMap == Init /\ [][NextMap]_vars

\* C1: once every request has settled, analysis data shown for a selection
\* that had a fetch issued is the data fetched for that selection, never the
\* data of an earlier selection.
C1_StaleResponseDiscarded ==
    (maInflight = {} /\ maProperty # None /\ HasUrl(maProperty)
        /\ MADisplayed[1] = "data")
    => MADisplayed[2] = maProperty

\* ------------------------------------------------------ GoogleMapsLoader claims
ScriptsMade == {s \in ScriptIds : scripts[s].net # "none"}

C6_OnLoadOnce == \A i \in Inst : onLoadCalls[i] <= 1

\* Some script still loading can resolve or reject promise p.
CanSettle(p) ==
    \E s \in ScriptIds :
        /\ scripts[s].net = "loading"
        /\ (scripts[s].prom = p \/ initMap = p)

\* Instance i waits in LOADING on a promise nothing can settle any more.
Stuck(i) ==
    /\ Quiescent
    /\ lifecycle[i] = "mounted"
    /\ rendered[i] = "LOADING"
    /\ attached[i] # None
    /\ promState[attached[i]] = "pending"
    /\ ~CanSettle(attached[i])

\* C7: loaders attached to the same load observe the same outcome, and the
\* teardown of one instance leaves no other instance stuck in LOADING.
C7_ConcurrentLoadersAgree ==
    /\ \A i \in Inst : ~Stuck(i)
    /\ \A i, j \in Inst :
         (Quiescent /\ lifecycle[i] = "mounted" /\ lifecycle[j] = "mounted"
            /\ attached[i] # None /\ attached[i] = attached[j])
         => rendered[i] = rendered[j]

\* C8: once an instance is in ERROR after a failed script load, and no loader
\* is mounted afresh, its status stays ERROR and no script element is injected.
C8_NoRetryAfterError ==
    [][\A i \in Inst :
         (apiKey /\ lifecycle[i] = "mounted" /\ status[i] = "ERROR"
            /\ lifecycle' = lifecycle)
         => (status'[i] = "ERROR" /\ nScripts' = nScripts)]_vars

\* ---------------------------------------------------- Dashboard and MapView
CurrentList == Elems(Filtered(dProps, dFilters))

OpenWins == {o.w : o \in mv.open}

\* C2: at most one popup is open in the selected state at any time, also
\* inside a handler: when the selection moves from P to Q, P's popup is closed
\* before Q's popup is opened.
C2_AtMostOneSelectedPopup == SelCount(mv.open) <= 1 /\ mv.peak <= 1

\* The last handler closed P's selected popup and then opened Q's, Q # P.
C2_SelectionMoved ==
    \E i, j \in 1..Len(mv.log) :
        /\ i < j
        /\ mv.log[i].op = "close" /\ mv.log[i].was = "sel"
        /\ mv.log[j].op = "open" /\ mv.log[j].was = "sel"
        /\ mv.log[i].w[1] # mv.log[j].w[1]
        /\ mv.sel = mv.log[j].w
        /\ dSelected.id = mv.log[j].w[1]

\* C3: after a synchronisation the registry holds a marker for exactly the
\* properties of the current list whose coordinates are numbers in range
\* (zero included).
C3_RegistryMatchesValidCoords ==
    mvMounted => mv.markers = {r \in CurrentList : InRange(PLat(r), PLng(r))}

\* C4: after a synchronisation no marker, marker listener or open popup of a
\* property absent from the current list remains.
C4_NothingLeftOfAbsentProperty ==
    mvMounted => \A w \in mv.onMap \cup mv.lst \cup OpenWins : w[1] \in CurrentList

\* C9: the response that is applied to the Dashboard is always that of the
\* most recently issued search, and no other search is in flight then.
C9_LatestSearchWins ==
    [][dVer' # dVer => (dVer' = fIssued /\ fInflight' = {})]_vars

\* The second search of the form has been applied after the first.
C9_SecondSearchApplied ==
    fIssued >= 2 /\ fOutcome[1] = "ok" /\ dVer = fIssued /\ fOutcome[fIssued] = "ok"

\* C10: the selected property is none or a property of the loaded set.
C10_SelectedIsLoaded == dSelected = NoSel \/ dSelected.id \in Elems(dProps)

\* C11: a record with invalid coordinates is still handed to the Dashboard:
\* the property set the Dashboard holds after a search response is the whole
\* set of records the response returned.
C11_InvalidCoordsStillListed ==
    [][\A q \in fInflight, S \in SUBSET Recs :
          ResponseOk(q, S) => Elems(dProps') = S]_vars

\* ------------------------------------- filtered view and PropertyList claims
\* The status spellings that mean pending, sold or closed.
C12_InactiveSpellings ==
    {"PENDING", "SOLD", "CLOSED", "Pending", "Sold", "Closed",
     "pending", "sold", "closed"}

\* C12: the filtered view holds no property whose status is PENDING, SOLD or
\* CLOSED in any letter case.
C12_NoInactiveShown ==
    \A r \in Elems(vShown) \cup Elems(vCards) : PStatus(r) \notin C12_InactiveSpellings

\* A set with a sold and an active property is loaded; only the active one shows.
C12_SoldLoaded ==
    /\ \E r \in Elems(vProps) : PStatus(r) = "Sold"
    /\ vShown # <<>>

\* The amount a max-price filter value stands for: its digits.
C13_Amount(v) ==
    CASE v.t = "num" -> v.n
      [] v.t = "str" -> DigitsVal(SelectSeq(v.s, LAMBDA c : c \in DigitChars))
      [] OTHER -> 0

C20_Pos(q, r) == CHOOSE k \in 1..Len(q) : q[k] = r

\* C20: the cards are a permutation of the array PropertyList was given, in
\* descending list_price with equal-priced properties in their input order,
\* and the array it was given is not reordered.
C20_StablePermutation ==
    /\ vShown = Filtered(vProps, vFilters)
    /\ Len(vCards) = Len(vShown)
    /\ Elems(vCards) = Elems(vShown)
    /\ Cardinality(Elems(vCards)) = Len(vCards)
    /\ \A i, j \in 1..Len(vCards) :
          i < j =>
            /\ PPrice(vCards[i]).n >= PPrice(vCards[j]).n
            /\ PPrice(vCards[i]).n = PPrice(vCards[j]).n
                  => C20_Pos(vShown, vCards[i]) < C20_Pos(vShown, vCards[j])

\* A list given in ascending price has been rendered, and rendered again
\* after a card was clicked.
C20_RerenderedReordered ==
    /\ vSel # None
    /\ Len(vShown) >= 2
    /\ PPrice(vShown[1]).n < PPrice(vShown[2]).n
    /\ vCards # vShown

\* ----------------------------------------------------- PropertyFilter claims
\* The max-price field holds no amount above 0.
C14_NoAmount(m) == m \in {<<>>, <<"0">>}

\* C14: a submit whose max price is not a number above 0 sets an error
\* message, sends no request, leaves loading false and changes neither the
\* Dashboard's filters nor its property set.
C14_InvalidMaxPriceRejected ==
    [][\A z \in ZipInputs, m \in MaxPriceInputs :
          (C14_NoAmount(m) /\ Submit(z, m)) =>
              /\ fError' = "Please enter a valid maximum price"
              /\ fInflight' = fInflight /\ fIssued' = fIssued
              /\ ~fLoading'
              /\ dFilters' = dFilters /\ dProps' = dProps]_vars

\* After a search that loaded properties, a submit was rejected.
C14_RejectedAfterSearch ==
    /\ fError = "Please enter a valid maximum price"
    /\ ~fLoading /\ fInflight = {}
    /\ dProps # <<>>

C16_NoKeyEndsInError ==
    ~apiKey =>
        /\ dScript = "none"
        /\ ~mvMounted
        /\ dAttempts = MapLoadRetries => MapPanel = "error"

\* ------------------------------------------------- MapView selection claims
\* C17: when the selection is changed from the list to a property Q that has
\* a marker, MapView closes the previously selected popup and the hovered
\* popup, then opens Q's popup as the selected one and pans to Q's marker.
C17_ExternalSelectionOpensPopup ==
    [][\A p \in Recs :
          (mvMounted /\ ListSelect(p) /\ dSelected' # dSelected
             /\ p \in mv'.markers) =>
              LET w == Win(p, mv'.gen) IN
              /\ mv'.sel = w
              /\ [w |-> w, mode |-> "sel"] \in mv'.open
              /\ \A o \in mv'.open : o.w # w => (o.w # mv.sel /\ o.w # mv.hov)
              /\ mv'.hov = NoWin
              /\ mv'.log # <<>> /\ mv'.log[Len(mv'.log)] = [op |-> "open", w |-> w, was |-> "sel"]
              /\ mv'.pan = p]_vars

\* A selection made from the list has closed the popup selected before and a
\* hovered popup, and opened the popup of the newly selected property.
C17_ListSelectionWithPopupsOpen ==
    /\ Len(mv.log) = 3
    /\ mv.log[1].op = "close" /\ mv.log[1].was = "sel" /\ mv.log[1].w[1] # dSelected.id
    /\ mv.log[2].op = "close" /\ mv.log[2].was = "hov"
    /\ mv.log[3].op = "open" /\ mv.log[3].w = Win(dSelected.id, mv.gen)
    /\ mv.pan = dSelected.id

\* C18: selecting a property that has no marker in the registry leaves the
\* selected-popup reference, the hovered-popup reference and the set of open
\* popups as they were.
C18_UnregisteredSelectionIsNoOp ==
    [][\A p \in Recs :
          (mvMounted /\ ListSelect(p) /\ p \notin mv'.markers) =>
              /\ mv'.sel = mv.sel
              /\ mv'.hov = mv.hov
              /\ mv'.open = mv.open]_vars

\* A property without a marker was selected from the list while the popup of
\* another property was open as the selected one.
C18_UnregisteredSelected ==
    /\ mvMounted
    /\ dSelected # NoSel /\ dSelected.id \notin mv.markers
    /\ dSelected.id \in CurrentList
    /\ mv.log = <<>>
    /\ mv.sel # NoWin /\ mv.sel[1] # dSelected.id
    /\ [w |-> mv.sel, mode |-> "sel"] \in mv.open

\* The popups open in the hovered state.
C19_Hovered == {o \in mv.open : o.mode = "hov"}

\* C19: at most one popup is hovered, the hovered popup never belongs to the
\* selected property, and once the pointer has left a marker no popup of its
\* property is hovered.
C19_HoverFollowsPointer ==
    /\ Cardinality(C19_Hovered) <= 1
    /\ \A o \in C19_Hovered : o.w[1] # dSelected.id
    /\ mv.out # None => \A o \in C19_Hovered : o.w[1] # mv.out

\* C21: the normalised photos of a search result is an array of HTTP URLs,
\* and neither the card nor the map popup uses a string that is not an HTTP
\* URL as image source.
C21_OnlyHttpPhotos ==
    /\ \A i \in 1..Len(phNorm) : IsHttpUrl(phNorm[i])
    /\ phCard \in {NoPhoto, <<HttpUrl>>}
    /\ phPopup \in {NoPhoto, <<HttpUrl>>}

\* C30: a fetch for the current propertyId that succeeds with no other fetch
\* in flight leaves the panel in the data state for that property, also when
\* an earlier fetch had failed; starting a fetch for a new propertyId leaves
\* no error of a previous fetch.
C30_SuccessShowsData ==
    [][\A r \in ppInflight :
         /\ (PPResolve(r) /\ r.id = ppId /\ ppInflight = {r})
               => PPDisplayed' = <<"data", r.id>>
         /\ \A q \in PredIds : PPSetId(q) => ppError' = ""]_vars

\* C29: when the selected property changes to one without a property_url,
\* with no fetch in flight, the analysis panel does not go on displaying the
\* data or the error of the previous property.
C29_NoUrlShowsNothingStale ==
    [][\A q \in PanelProps :
         (MASelect(q) /\ ~HasUrl(q) /\ maInflight = {})
            => MADisplayed'[1] \notin {"data", "error"}]_vars

\* Marker objects of the registry, each named like the info window made with it.
C22_Registered(m) == {Win(p, m.gen) : p \in m.markers}

\* C22: a synchronisation triggered by a selection change, or by a list
\* change that keeps property P, does not destroy and re-create P's marker:
\* the marker object registered for P before is still on the map after.
C22_MarkersKeptAcrossSync ==
    [][(mvMounted /\ mv.map /\ mv'.gen # mv.gen)
          => \A p \in mv.markers \cap mv'.markers : Win(p, mv.gen) \in mv'.onMap]_vars

\* C26: once a synchronisation has settled, the selected-popup reference,
\* when set, is the popup of a marker currently in the registry, and no popup
\* opened as the selected one belongs to a destroyed marker.
C26_SelectedPopupIsCurrent ==
    mvMounted =>
      /\ mv.sel # NoWin => mv.sel \in C22_Registered(mv)
      /\ \A o \in mv.open : o.mode = "sel" => o.w \in C22_Registered(mv)

C25_FiltersAreSubmittedCriteria ==
    [][\A q \in fInflight : \A S \in SUBSET Recs :
         ResponseOk(q, S)
           => /\ dFilters' = [zip |-> q.zip, max |-> q.max]
              /\ \A r \in Elems(dProps') :
                    (/\ Upper(PStatus(r)) \notin {"PENDING", "SOLD", "CLOSED"}
                     /\ PZip(r) = q.zip
                     /\ PPrice(r).n <= q.max.n)
                      => r \in Elems(Filtered(dProps', dFilters'))]_vars

\* The second half of C25 alone: the returned properties that match the
\* submitted criteria are all in the filtered view.
C25_MatchingReturnedAreShown ==
    [][\A q \in fInflight : \A S \in SUBSET Recs :
         ResponseOk(q, S)
           => \A r \in Elems(dProps') :
                 (/\ Upper(PStatus(r)) \notin {"PENDING", "SOLD", "CLOSED"}
                  /\ PZip(r) = q.zip
                  /\ PPrice(r).n <= q.max.n)
                   => r \in Elems(Filtered(dProps', dFilters'))]_vars

\* C23: after MapView is torn down, every marker it created is off the map
\* and every listener it registered (marker click, mouseover, mouseout and
\* the map's 'idle' listener) is detached.
C23_TeardownIsTotal ==
    mmLife = "unmounted" => (mm.m.onMap = {} /\ mm.m.lst = {} /\ mm.idle = {})

\* C24: a synchronisation that finds the widget missing makes no map, marker,
\* popup or listener, and the 'initializing' error it reports is gone once a
\* later synchronisation has run successfully.
C24_InitialisingErrorIsTransient ==
    /\ mm.last = "guard" =>
         (~mm.m.map /\ mm.m.onMap = {} /\ mm.m.lst = {} /\ mm.m.open = {}
            /\ mm.idle = {})
    /\ mm.last = "ok" => mm.err # InitialisingError

\* C27: every marker MapView placed is in the registry with its listeners,
\* also after building a popup failed, and none is left once it is torn down.
C27_EveryPlacedMarkerRegistered ==
    /\ mmLife = "mounted" =>
         (mm.m.onMap \subseteq C22_Registered(mm.m) /\ mm.m.onMap \subseteq mm.m.lst)
    /\ mmLife = "unmounted" => mm.m.onMap = {}

====
